---- MODULE Spec2Model ----
(***************************************************************************)
(* violet-cache: the mailbox ingestion pipeline.                           *)
(*                                                                         *)
(*   Spec       the Sync Job records, the admission gate, the submission   *)
(*              endpoint and the orchestration runs                        *)
(*   RetrySpec  one network call through GmailClient._get_with_backoff     *)
(*   FetchSpec  one batch through GmailClient.fetch_messages_by_ids        *)
(*              (FetchLiveSpec: under the event loop's fair scheduling)    *)
(*   ListSpec   the pages of GmailClient.list_messages (ListLiveSpec: with *)
(*              fair scheduling)                                           *)
(*                                                                         *)
(* Storage (the job table) is taken to be reliable: a commit that is       *)
(* issued succeeds.  Each job id is handed to at most one orchestration    *)
(* run (one unit of work picked up by exactly one worker).                 *)
(***************************************************************************)
EXTENDS Integers, Sequences, FiniteSets, TLC

\* Number of submissions to the sync endpoint that the model follows.
MaxRequests == 2

\* Number of workers: orchestration runs that execute at the same time.
MaxWorkers == 2

Requests == 1..MaxRequests

\* Python's None.
NoneVal == "None"

(***************************************************************************)
(* Stored data the pipeline only reads: mail accounts and credentials.     *)
(***************************************************************************)
\* A resource id that is not a well-formed UUID string.
Malformed == "not-a-uuid"

\* One mail account id per case the code distinguishes.
ResourceIds ==
    { "acct_ok", "acct_absent", "acct_outlook", "acct_noauth",
      "acct_notoken", "acct_nouid", "acct_expired" }

\* EmailAccountRepository.find_by_id: the account row; found = FALSE is None.
EmailAccountFindById(a) ==
    CASE a = "acct_absent"  -> [found |-> FALSE, provider |-> NoneVal]
      [] a = "acct_outlook" -> [found |-> TRUE, provider |-> "outlook"]
      [] OTHER              -> [found |-> TRUE, provider |-> "gmail"]

\* GoogleAuthDataRepository.find_by_email_account_id: the credential row of
\* the account; found = FALSE is None.
NoAuthData ==
    [found |-> FALSE, access_token |-> NoneVal, refresh_token |-> NoneVal,
     refresh_expired |-> FALSE, google_user_id |-> NoneVal]
FindAuthByEmailAccountId(a) ==
    CASE a = "acct_noauth" -> NoAuthData
      [] a = "acct_absent" -> NoAuthData
      [] a = "acct_notoken" ->
            [found |-> TRUE, access_token |-> NoneVal, refresh_token |-> "rt",
             refresh_expired |-> FALSE, google_user_id |-> "g-user"]
      [] a = "acct_nouid" ->
            [found |-> TRUE, access_token |-> "at", refresh_token |-> "rt",
             refresh_expired |-> FALSE, google_user_id |-> NoneVal]
      [] a = "acct_expired" ->
            [found |-> TRUE, access_token |-> "at", refresh_token |-> "rt",
             refresh_expired |-> TRUE, google_user_id |-> "g-user"]
      [] OTHER ->
            [found |-> TRUE, access_token |-> "at", refresh_token |-> "rt",
             refresh_expired |-> FALSE, google_user_id |-> "g-user"]

\* The provider tags (enum EmailProvider).
EmailProvider == { "gmail", "outlook" }

\* The provider -> constructor tables of the two factories.
AuthDataStrategiesWithOutlook == { "gmail", "outlook" }
AuthDataStrategies == { "gmail" }
EmailProviderStrategies == { "gmail" }

\* AuthDataStrategyFactory.create and EmailProviderStrategyFactory.create:
\* the exception raised, or the object constructed (GmailStrategy
\* constructs its GmailClient).
AuthDataStrategyFactoryCreate(provider) ==
    IF provider \notin AuthDataStrategies
    THEN [raises |-> "ValueError",
          message |-> "Unsupported email provider for auth data",
          constructed |-> {}]
    ELSE [raises |-> NoneVal, message |-> NoneVal,
          constructed |-> { "GmailAuthDataStrategy" }]
EmailProviderStrategyFactoryCreate(provider) ==
    IF provider \notin EmailProviderStrategies
    THEN [raises |-> "ValueError",
          message |-> "Unsupported email provider",
          constructed |-> {}]
    ELSE [raises |-> NoneVal, message |-> NoneVal,
          constructed |-> { "GmailStrategy", "GmailClient" }]

(***************************************************************************)
(* State.                                                                  *)
(***************************************************************************)
VARIABLES
    target,      \* the account under test: submissions name it or acct_ok
    typing,      \* whether the task checks a call's arguments in .delay
    jobs,        \* the WorkflowJob table: job id i is row jobs[i]
    hist,        \* hist[i]: every status value written to job i, in order
    req,         \* req[p]: submission p to POST /email-accounts/{id}/sync
    gateQuiet,   \* gateQuiet[a]: see GateFind
    lastGate,    \* the gate call that completed last
    dispatched,  \* every call of sync_email_metadata_orchestrator.delay
    taskQueue,   \* task messages accepted by the broker, not yet delivered
    rejected,    \* task messages whose invocation failed before the body
    run,         \* run[r]: the orchestration run of job r (0: unknown job)
    attempt, last_exc, rpc, result, lastOutcome, nAttempts, nWaits,
    nRetryable, lastTransient,
                 \* one call of _get_with_backoff, see RetrySpec
    delay,       \* the wait in progress in that call, in ms (0: none)
    message_ids, \* the argument of the fetch_messages_by_ids call
    fpc,         \* that call: "idle", "gathering", "returned" or "raised"
    fresult,     \* the list the call returned
    fexc,        \* the first exception raised by one of its requests
    task,        \* task[i]: the coroutine one(mid) of the i-th id
    sem,         \* the value of self._sem
    limiter,     \* limiter[a]: acquisitions of self._limiter a ticks ago
    sent,        \* sent[a]: requests sent to the remote API a ticks ago
    overtaken,   \* some request completed before one of a lower index
    closed,      \* GmailClient.close was called by the caller of the batch
    chain,       \* the provider's pages of message ids, see ListSpec
    lpc,         \* the position of the generator GmailClient.list_messages
    page_token,  \* its local page_token
    lreqs,       \* the pageToken of each request of the current call
    lresps,      \* the responses to them
    lyielded,    \* the pages the current call yielded
    lcalls,      \* the calls of list_messages so far
    creds,       \* the GoogleAuthData table: creds[a] is the row of account a
    refreshCalls \* calls of GoogleOAuthService.refresh_access_token

jobVars == <<target, typing, jobs, hist, req, gateQuiet, lastGate, dispatched, taskQueue, rejected, run>>
retryVars == <<attempt, last_exc, rpc, result, lastOutcome, nAttempts, nWaits,
               nRetryable, lastTransient, delay>>
fetchVars == <<message_ids, fpc, fresult, fexc, task, sem, limiter, sent,
               overtaken, closed>>
listVars == <<chain, lpc, page_token, lreqs, lresps, lyielded, lcalls>>
credVars == <<creds, refreshCalls>>
vars == <<jobVars, retryVars, fetchVars, listVars, credVars>>

JobIds == 1..Len(jobs)
RunIds == 0..MaxRequests

Terminal == { "succeeded", "failed" }

(***************************************************************************)
(* JobRepository and JobService.                                           *)
(***************************************************************************)
\* The statuses get_or_create_active_job asks find_job_by_resource for.
ActiveStatusesRunningOnly == { "running" }
ActiveStatuses == { "queued", "running" }

\* The status get_or_create_active_job gives a job it creates.
GateNewJobStatusRunning == "running"
GateNewJobStatus == "queued"

\* JobRepository.find_job_by_resource: the rows the statement selects.
MatchingJobs(js, resource_id, resource_type, job_type, statuses) ==
    { i \in 1..Len(js) :
        /\ js[i].resource_id = resource_id
        /\ js[i].resource_type = resource_type
        /\ js[i].job_type = job_type
        /\ (statuses # {} => js[i].status \in statuses) }

\* ... and what .first() may return: the statement has no ORDER BY, so any
\* selected row; 0 stands for None.
find_job_by_resource(js, resource_id, resource_type, job_type, statuses) ==
    LET m == MatchingJobs(js, resource_id, resource_type, job_type, statuses)
    IN  IF m = {} THEN {0} ELSE m

\* JobRepository.create: the table with the new row appended.
create(js, resource_id, resource_type, job_type, job_status) ==
    Append(js, [resource_id      |-> resource_id,
                resource_type    |-> resource_type,
                job_type         |-> job_type,
                status           |-> job_status,
                error_message    |-> NoneVal,
                progress_current |-> 0,
                completed_at     |-> NoneVal])

\* JobService.update_job on a job that exists: only status and
\* error_message are stored; the other arguments are accepted and dropped.
\* The row is the one job_repo.find_by_id(id=job_id) returns.
update_job_of_resource(js, job_id, status, error_message, progress_current) ==
    [ i \in 1..Len(js) |->
        IF js[i].resource_id = js[job_id].resource_id /\ status # NoneVal
        THEN [js[i] EXCEPT !.status = status]
        ELSE js[i] ]
update_job(js, job_id, status, error_message, progress_current) ==
    LET j1 == IF status # NoneVal
              THEN [js[job_id] EXCEPT !.status = status]
              ELSE js[job_id]
        j2 == IF error_message # NoneVal
              THEN [j1 EXCEPT !.error_message = error_message]
              ELSE j1
    IN  [js EXCEPT ![job_id] = j2]

\* The status history after the same update_job.
HistAfter(h, job_id, status) ==
    IF status # NoneVal THEN [h EXCEPT ![job_id] = Append(@, status)] ELSE h

(***************************************************************************)
(* The task sync_email_metadata_orchestrator(job_id, email_account_id,     *)
(* idempotency_key=None) and the binding of a call's arguments to it.      *)
(***************************************************************************)
TaskParams == << "job_id", "email_account_id", "idempotency_key" >>
TaskRequired == { "job_id", "email_account_id" }

\* Argument values: a job's UUID, str(account UUID), an idempotency key,
\* and the mark of a parameter no argument was bound to.
JobArg(j) == [type |-> "job", job |-> j]
AccountArg(a) == [type |-> "account", acct |-> a]
KeyArg(k) == [type |-> "key", key |-> k]
MissingArg == [type |-> "missing"]

ParamIndex(n) == CHOOSE i \in 1..Len(TaskParams) : TaskParams[i] = n

\* Python's binding of positional and keyword arguments to the parameters.
Bind(positional, kwargs) ==
    [ n \in { TaskParams[i] : i \in 1..Len(TaskParams) } |->
        IF ParamIndex(n) <= Len(positional) THEN positional[ParamIndex(n)]
        ELSE IF n \in DOMAIN kwargs THEN kwargs[n]
        ELSE IF n \in TaskRequired THEN MissingArg
        ELSE KeyArg(NoneVal) ]

\* The call raises TypeError: a required parameter is left unbound.
CallFails(b) == \E n \in TaskRequired : b[n].type = "missing"

\* The arguments start_email_account_sync passes to .delay(...).
DelayArgs(job_id, email_account_id, idempotency_key) ==
    Bind(<< AccountArg(email_account_id) >>,
         [idempotency_key |-> KeyArg(idempotency_key)])

(***************************************************************************)
(* The submission endpoint sync_email_account, in the steps at which       *)
(* another request or a run can interleave with it: the gate's lookup,     *)
(* then everything from the gate's create to the response.                 *)
(***************************************************************************)
IdleReq ==
    [pc |-> "idle", account |-> NoneVal, found |-> 0, alone |-> FALSE,
     prev |-> 0, noActiveAtStart |-> FALSE, response |-> 0]

\* A request answered with an HTTP status code: only the answer is kept.
Answered(code) == [IdleReq EXCEPT !.pc = "done", !.response = code]

\* The record of the gate call that completed last, see GateCompletes.
NoGate ==
    [account |-> NoneVal, alone |-> FALSE, prev |-> 0,
     noActiveAtStart |-> FALSE, created |-> FALSE, job |-> 0,
     wrote |-> FALSE, statusAtReturn |-> NoneVal]

\* Requests that are inside the gate (looked up, not yet created or reused)
\* for account a.
InGate(a) == { q \in Requests : req[q].pc = "looked" /\ req[q].account = a }

\* A job of account a changed status: whatever a gate call on a observed
\* before is no longer "with no status change in between".
Disturbed(rq, a) ==
    [ q \in Requests |->
        IF rq[q].pc = "looked" /\ rq[q].account = a
        THEN [rq[q] EXCEPT !.prev = 0, !.alone = FALSE]
        ELSE rq[q] ]

\* Submissions are numbered in the order they arrive.
Arrives(p) == req[p].pc = "idle" /\ \A q \in 1..(p - 1) : req[q].pc # "idle"

\* The account ids submissions name: the account under test, and for the
\* first submission also another account.
SubmittedIds(p) == IF p = 1 THEN { target, "acct_ok" } ELSE { target }

\* uuid.UUID(email_account_id) raises ValueError: 400.
SubmitMalformed(p) ==
    /\ Arrives(p)
    /\ req' = [req EXCEPT ![p] = Answered(400)]
    /\ UNCHANGED <<target, typing, jobs, hist, gateQuiet, lastGate, dispatched,
                   taskQueue, rejected, run>>
    /\ UNCHANGED <<retryVars, fetchVars, listVars, credVars>>

\* get_or_create_active_job, first half: the lookup.
\* gateQuiet[a] = j > 0 records that the last gate call on a ran with no
\* other gate call on a in progress, created job j, and that no job of a
\* has changed status since.
GateFind(p, a) ==
    /\ Arrives(p)
    /\ a \in SubmittedIds(p)
    /\ \E f \in find_job_by_resource(jobs, a, "email_account", "mailbox_sync",
                                     ActiveStatuses) :
         req' = [ q \in Requests |->
                    IF q = p
                    THEN [req[p] EXCEPT
                            !.pc = "looked", !.account = a, !.found = f,
                            !.alone = (InGate(a) = {}),
                            !.prev = IF InGate(a) = {} THEN gateQuiet[a] ELSE 0,
                            !.noActiveAtStart =
                                (\A i \in JobIds :
                                    jobs[i].resource_id = a
                                        => jobs[i].status \in Terminal)]
                    ELSE IF q \in InGate(a)
                    THEN [req[q] EXCEPT !.alone = FALSE, !.prev = 0]
                    ELSE req[q] ]
    /\ gateQuiet' = [gateQuiet EXCEPT ![a] = 0]
    /\ UNCHANGED <<target, typing, jobs, hist, lastGate, dispatched, taskQueue,
                   rejected, run>>
    /\ UNCHANGED <<retryVars, fetchVars, listVars, credVars>>

\* get_or_create_active_job, second half: what it returns and the job
\* table it leaves, creating a job when the lookup found none.
GateResult(p) ==
    LET created == (req[p].found = 0)
        newJobs == IF created
                   THEN create(jobs, req[p].account, "email_account",
                               "mailbox_sync", GateNewJobStatus)
                   ELSE jobs
    IN  [jobs |-> newJobs, created |-> created,
         job |-> IF created THEN Len(newJobs) ELSE req[p].found]

\* The gate call of request p completes with result g.
GateCompletes(p, g) ==
    /\ jobs' = g.jobs
    /\ hist' = IF g.created THEN Append(hist, << g.jobs[g.job].status >>)
                            ELSE hist
    /\ gateQuiet' = [gateQuiet EXCEPT ![req[p].account] =
                        IF req[p].alone /\ g.created THEN g.job ELSE 0]
    /\ lastGate' = [account |-> req[p].account, alone |-> req[p].alone,
                    prev |-> req[p].prev,
                    noActiveAtStart |-> req[p].noActiveAtStart,
                    created |-> g.created, job |-> g.job,
                    wrote |-> (g.jobs # jobs),
                    statusAtReturn |-> g.jobs[g.job].status]

\* created = False: the endpoint returns the job it found and starts nothing.
ReturnExisting(p) ==
    /\ req[p].pc = "looked"
    /\ ~GateResult(p).created
    /\ GateCompletes(p, GateResult(p))
    /\ req' = [req EXCEPT ![p] = Answered(200)]
    /\ UNCHANGED <<target, typing, dispatched, taskQueue, rejected, run>>
    /\ UNCHANGED <<retryVars, fetchVars, listVars, credVars>>

\* check_auth_credentials_valid: is_valid.
check_auth_credentials_valid(a) ==
    LET auth == FindAuthByEmailAccountId(a)
    IN  IF ~EmailAccountFindById(a).found THEN FALSE
        ELSE IF ~auth.found THEN FALSE
        ELSE IF auth.refresh_token = NoneVal THEN FALSE
        ELSE IF auth.refresh_expired THEN FALSE
        ELSE TRUE

\* start_email_account_sync raises ValueError before it submits the task.
StartSyncRaisesValueError(a) ==
    \/ ~EmailAccountFindById(a).found
    \/ ~check_auth_credentials_valid(a)

\* created = True and start_email_account_sync raises ValueError: 400.
StartSyncRejected(p) ==
    /\ req[p].pc = "looked"
    /\ GateResult(p).created
    /\ StartSyncRaisesValueError(req[p].account)
    /\ GateCompletes(p, GateResult(p))
    /\ req' = [req EXCEPT ![p] = Answered(400)]
    /\ UNCHANGED <<target, typing, dispatched, taskQueue, rejected, run>>
    /\ UNCHANGED <<retryVars, fetchVars, listVars, credVars>>

\* The idempotency_key query parameter: every submission the model follows
\* carries the same key.
IdempotencyKeys == { "key-1" }

\* created = True and start_email_account_sync submits the task.  With the
\* task's argument checking on (typing), .delay raises TypeError for a call
\* the signature rejects and the endpoint answers 500; with it off the
\* message is queued and the endpoint returns the job.
StartSyncDispatch(p) ==
    /\ req[p].pc = "looked"
    /\ GateResult(p).created
    /\ ~StartSyncRaisesValueError(req[p].account)
    /\ GateCompletes(p, GateResult(p))
    /\ \E key \in IdempotencyKeys :
       LET args == DelayArgs(GateResult(p).job, req[p].account, key)
           call == [req |-> p, created |-> GateResult(p).created,
                    gate_job |-> GateResult(p).job,
                    account |-> req[p].account, args |-> args]
       IN  /\ dispatched' = dispatched \cup { call }
           /\ IF typing /\ CallFails(args)
              THEN /\ taskQueue' = taskQueue
                   /\ req' = [req EXCEPT ![p] = Answered(500)]
              ELSE /\ taskQueue' = taskQueue \cup { [args |-> args] }
                   /\ req' = [req EXCEPT ![p] = Answered(200)]
    /\ UNCHANGED <<target, typing, rejected, run>>
    /\ UNCHANGED <<retryVars, fetchVars, listVars, credVars>>

(***************************************************************************)
(* _sync_email_metadata_orchestrator.                                      *)
(***************************************************************************)
\* Resource ids tried together with a job id that matches no job record.
UnknownJobResourceIds == { Malformed, "acct_ok" }

NoRunResult == [status |-> NoneVal, message |-> NoneVal]
\* A run: its position, its locals, and what it has done so far: the
\* persistence contexts (celery_session) it opened, the one that was active
\* when an exception was raised, the one the failed status was written
\* through, its calls of list_messages, its requests to the remote API, and
\* the log of its list requests, batch fetches and progress writes.
IdleRun ==
    [pc |-> "none", account |-> NoneVal, strategy |-> "none",
     closeCalls |-> 0, error |-> NoneVal, result |-> NoRunResult,
     raised |-> NoneVal, sessions |-> 0, raisedIn |-> 0, failedIn |-> 0,
     listCalls |-> 0, requests |-> 0, log |-> << >>]

\* The result the run returns for an error.
ErrorResultAsSuccess(message) == [status |-> "success", message |-> message]
ErrorResult(message) == [status |-> "error", message |-> message]

\* with celery_session() as session in the except clause: a session of its
\* own, after the ones opened before (c of them).
HandlerSessionReused(c) == c
HandlerSession(c) == c + 1

\* if not auth_data.access_token (line 71).
HasAccessTokenAlways(auth) == TRUE
HasAccessToken(auth) == auth.access_token # NoneVal

\* The run slot a call's job_id belongs to: 0 when no job record has it.
RunOf(args) ==
    IF args.job_id.type = "job" /\ args.job_id.job \in JobIds
    THEN args.job_id.job ELSE 0

\* Runs that occupy a worker.
Executing == { r \in RunIds : run[r].pc \notin { "none", "returned", "raised" } }

\* Lines 40-47, for a call whose arguments bind: parse the resource id,
\* then update_job(status=running).
EnterRun(args) ==
    LET r == RunOf(args)
        a == IF args.email_account_id.type = "account"
             THEN args.email_account_id.acct ELSE "acct_absent"
    IN  /\ run[r].pc = "none"
        /\ Cardinality(Executing) < MaxWorkers
        /\ IF a = Malformed
           THEN \* uuid.UUID raises ValueError outside the try
                /\ run' = [run EXCEPT ![r] =
                             [@ EXCEPT !.pc = "raised", !.account = a,
                                       !.raised = "ValueError"]]
                /\ UNCHANGED <<jobs, hist, req, gateQuiet>>
           ELSE IF r = 0
           THEN \* find_by_id gives None: job.status = ... raises
                /\ run' = [run EXCEPT ![r] =
                             [@ EXCEPT !.pc = "handler", !.account = a,
                                       !.sessions = 1, !.raisedIn = 1,
                                       !.error = "AttributeError"]]
                /\ UNCHANGED <<jobs, hist, req, gateQuiet>>
           ELSE /\ jobs' = update_job(jobs, r, "running", NoneVal, NoneVal)
                /\ hist' = HistAfter(hist, r, "running")
                /\ req' = Disturbed(req, jobs[r].resource_id)
                /\ gateQuiet' = [gateQuiet EXCEPT ![jobs[r].resource_id] = 0]
                /\ run' = [run EXCEPT ![r] =
                             [@ EXCEPT !.pc = "resolve", !.account = a,
                                       !.sessions = 1]]

\* A worker receives the task for job j, called as the task's signature
\* asks: the job's id, then the id of the job's resource.  Once per job id.
RunStart(j) ==
    /\ j \in JobIds
    /\ EnterRun(Bind(<< JobArg(j), AccountArg(jobs[j].resource_id) >>, << >>))
    /\ UNCHANGED <<target, typing, lastGate, dispatched, taskQueue, rejected>>
    /\ UNCHANGED <<retryVars, fetchVars, listVars, credVars>>

\* A worker receives a task whose job id matches no job record.
RunStartUnknownJob(a) ==
    /\ a \in UnknownJobResourceIds
    /\ EnterRun(Bind(<< JobArg(0), AccountArg(a) >>, << >>))
    /\ UNCHANGED <<target, typing, lastGate, dispatched, taskQueue, rejected>>
    /\ UNCHANGED <<retryVars, fetchVars, listVars, credVars>>

\* A worker receives a message the submission endpoint queued and calls the
\* task with its arguments.  When a required parameter is unbound the call
\* raises TypeError and the body never runs.
TaskDelivered(m) ==
    /\ m \in taskQueue
    /\ taskQueue' = taskQueue \ { m }
    /\ IF CallFails(m.args)
       THEN /\ rejected' = rejected \cup { m }
            /\ UNCHANGED <<jobs, hist, req, gateQuiet, run>>
       ELSE /\ EnterRun(m.args)
            /\ UNCHANGED rejected
    /\ UNCHANGED <<target, typing, lastGate, dispatched>>
    /\ UNCHANGED <<retryVars, fetchVars, listVars, credVars>>

\* GoogleOAuthService.refresh_access_token for the credential of account a:
\* the table with the new access token stored.
refresh_access_token(cs, a) == [cs EXCEPT ![a].access_token = "at-refreshed"]

\* auth_data_strategy.load_auth_data(session, email_account_uuid) (line 62,
\* GmailAuthDataStrategy.load_auth_data): the row it returns, the table it
\* leaves and the token refreshes it makes.
\* The row of account a, None for an id the table does not have.
AuthRow(cs, a) == IF a \in DOMAIN cs THEN cs[a] ELSE NoAuthData
load_auth_data_refreshing(cs, a) ==
    IF AuthRow(cs, a).found /\ AuthRow(cs, a).access_token = NoneVal
    THEN [auth |-> refresh_access_token(cs, a)[a],
          creds |-> refresh_access_token(cs, a), refreshes |-> 1]
    ELSE [auth |-> AuthRow(cs, a), creds |-> cs, refreshes |-> 0]
load_auth_data(cs, a) ==
    [auth |-> AuthRow(cs, a), creds |-> cs, refreshes |-> 0]

\* Lines 48-86: what resolving the account, the credential, the user
\* identifier and the two strategies ends in, for the credential row auth.
ResolveStages(a, auth) ==
    LET acct == EmailAccountFindById(a)
    IN  IF ~acct.found
        THEN [kind |-> "return", message |-> "EmailAccount not found"]
        ELSE IF AuthDataStrategyFactoryCreate(acct.provider).raises # NoneVal
        THEN [kind |-> "raise",
              message |-> AuthDataStrategyFactoryCreate(acct.provider).message]
        ELSE IF ~auth.found
        THEN [kind |-> "return", message |-> "No auth data found"]
        ELSE IF ~HasAccessToken(auth)
        THEN [kind |-> "return", message |-> "Access token not available"]
        ELSE IF auth.google_user_id = NoneVal
        THEN [kind |-> "return", message |-> "User identifier not found"]
        ELSE IF EmailProviderStrategyFactoryCreate(acct.provider).raises # NoneVal
        THEN [kind |-> "raise",
              message |-> EmailProviderStrategyFactoryCreate(acct.provider).message]
        ELSE [kind |-> "strategy", message |-> NoneVal]

\* Line 62 is reached: the account exists and its auth data strategy was
\* created.
LoadsAuthData(a) ==
    /\ EmailAccountFindById(a).found
    /\ AuthDataStrategyFactoryCreate(EmailAccountFindById(a).provider).raises
          = NoneVal

\* The outcome of lines 48-86 for account a, with the credential table and
\* the number of token refreshes they leave.
ResolveOutcome(a) ==
    LET ld == load_auth_data(creds, a)
    IN  [kind |-> ResolveStages(a, ld.auth).kind,
         message |-> ResolveStages(a, ld.auth).message,
         creds |-> IF LoadsAuthData(a) THEN ld.creds ELSE creds,
         refreshes |-> IF LoadsAuthData(a) THEN ld.refreshes ELSE 0]

Resolve(r) ==
    /\ run[r].pc = "resolve"
    /\ LET o == ResolveOutcome(run[r].account)
       IN  /\ run' = [run EXCEPT ![r] =
                CASE o.kind = "return" ->
                        [@ EXCEPT !.pc = "finally",
                                  !.result = ErrorResult(o.message)]
                  [] o.kind = "raise" ->
                        [@ EXCEPT !.pc = "handler", !.error = o.message,
                                  !.raisedIn = run[r].sessions]
                  [] OTHER ->
                        [@ EXCEPT !.pc = "list_inbox", !.strategy = "open"]]
           /\ creds' = o.creds
           /\ refreshCalls' = refreshCalls + o.refreshes
    /\ UNCHANGED <<target, typing, lastGate, jobs, hist, req, gateQuiet, dispatched, taskQueue, rejected>>
    /\ UNCHANGED <<retryVars, fetchVars, listVars>>

\* The keyword arguments of the orchestrator's strategy.list_messages call
\* and the keyword parameters GmailStrategy.list_messages declares.
ListMessagesKwargs ==
    { "access_token", "user_identifier", "include_spam_trash", "label_ids" }
GmailStrategyListParams ==
    { "access_token", "user_identifier", "max_results_per_page",
      "include_spam_trash" }

\* The labels of the two loops, in the order of the code (lines 94, 110).
Scopes == << "INBOX", "SENT" >>

\* The keyword arguments of strategy.list_messages(...) for a scope (lines
\* 90-95, 106-111) and of strategy.fetch_messages_by_ids(...) (lines 97-102,
\* 113-118).
OrchestratorListKwargs(scope) ==
    [access_token |-> "at", user_identifier |-> "g-user",
     include_spam_trash |-> FALSE, label_ids |-> << scope >>]
OrchestratorFetchKwargs ==
    [access_token |-> "at", user_identifier |-> "g-user",
     format |-> "metadata"]

\* The keyword parameters GmailStrategy.fetch_messages_by_ids declares.
GmailStrategyFetchParams == { "access_token", "user_identifier" }

\* GmailStrategy.list_messages(**kwargs): TypeError for a keyword it does
\* not declare, else the keyword arguments it passes to
\* self._client.list_messages.
GmailStrategyListMessages(kwargs) ==
    IF ~(DOMAIN kwargs \subseteq GmailStrategyListParams)
    THEN [raises |-> "TypeError"]
    ELSE [raises |-> NoneVal,
          client_kwargs |->
            [google_user_id |-> kwargs.user_identifier,
             headers |-> kwargs.access_token,
             max_results_per_page |->
                IF "max_results_per_page" \in DOMAIN kwargs
                THEN kwargs.max_results_per_page ELSE 500,
             include_spam_trash |-> kwargs.include_spam_trash]]

\* GmailStrategy.fetch_messages_by_ids(message_ids, **kwargs), likewise.
GmailStrategyFetchMessagesByIds(kwargs) ==
    IF ~(DOMAIN kwargs \subseteq GmailStrategyFetchParams)
    THEN [raises |-> "TypeError"]
    ELSE [raises |-> NoneVal,
          client_kwargs |->
            [google_user_id |-> kwargs.user_identifier,
             headers |-> kwargs.access_token]]

\* GmailClient.list_messages: the query parameters of a list request made
\* with keyword arguments ck (label_ids defaults to [], and an empty list
\* adds no labelIds).
ClientListParams(ck) ==
    LET label_ids == IF "label_ids" \in DOMAIN ck THEN ck.label_ids ELSE << >>
        params == [maxResults |-> ck.max_results_per_page,
                   includeSpamTrash |-> ck.include_spam_trash]
    IN  IF label_ids # << >> THEN params @@ [labelIds |-> label_ids]
        ELSE params

\* GmailClient.fetch_messages_by_ids: the format in the URL of each detail
\* request (format defaults to "full").
ClientFetchFormat(ck) == IF "format" \in DOMAIN ck THEN ck.format ELSE "full"

\* Line 90: async for ... in strategy.list_messages(..., label_ids=["INBOX"]).
\* The call names a parameter the method does not declare; and the method is
\* a coroutine function, whose result is no async iterator.  Either way the
\* statement raises TypeError before any request is made.
ListInbox(r) ==
    /\ run[r].pc = "list_inbox"
    /\ run' = [run EXCEPT ![r] =
                [@ EXCEPT !.pc = "handler",
                          !.listCalls = @ + 1,
                          !.raisedIn = run[r].sessions,
                          !.error =
                            IF GmailStrategyListMessages(
                                 OrchestratorListKwargs(Scopes[1])).raises = NoneVal
                            THEN "TypeError: 'async for' requires __aiter__"
                            ELSE "TypeError: unexpected keyword argument"]]
    /\ UNCHANGED <<target, typing, lastGate, jobs, hist, req, gateQuiet, dispatched, taskQueue, rejected>>
    /\ UNCHANGED <<retryVars, fetchVars, listVars, credVars>>

\* Lines 129-136: update_job(status=failed, error_message=str(e)) in a fresh
\* session, then return the error result.  With no job record update_job
\* raises inside the handler and the exception leaves the function.
HandleError(r) ==
    /\ run[r].pc = "handler"
    /\ IF r = 0
       THEN /\ run' = [run EXCEPT ![r] =
                        [@ EXCEPT !.pc = "finally",
                                  !.sessions = HandlerSession(@),
                                  !.raised = "AttributeError"]]
            /\ UNCHANGED <<jobs, hist, req, gateQuiet>>
       ELSE /\ jobs' = update_job(jobs, r, "failed", run[r].error, NoneVal)
            /\ hist' = HistAfter(hist, r, "failed")
            /\ req' = Disturbed(req, jobs[r].resource_id)
            /\ gateQuiet' = [gateQuiet EXCEPT ![jobs[r].resource_id] = 0]
            /\ run' = [run EXCEPT ![r] =
                        [@ EXCEPT !.pc = "finally",
                                  !.sessions = HandlerSession(@),
                                  !.failedIn = HandlerSession(run[r].sessions),
                                  !.result = ErrorResult(run[r].error)]]
    /\ UNCHANGED <<target, typing, lastGate, dispatched, taskQueue, rejected>>
    /\ UNCHANGED <<retryVars, fetchVars, listVars, credVars>>

\* if strategy (line 138): the local is None ("none") until line 86 binds
\* it to the strategy object, which is truthy.
StrategyIsSetNever(strategy) == FALSE
StrategyIsSet(strategy) == strategy # "none"

\* Lines 137-139: if strategy: await strategy.close(); then the function
\* returns its result or lets the pending exception out.
Finally(r) ==
    /\ run[r].pc = "finally"
    /\ run' = [run EXCEPT ![r] =
                [@ EXCEPT !.pc = IF run[r].raised # NoneVal
                                 THEN "raised" ELSE "returned",
                          !.strategy = IF StrategyIsSet(run[r].strategy)
                                       THEN "closed" ELSE @,
                          !.closeCalls = IF StrategyIsSet(run[r].strategy)
                                         THEN @ + 1 ELSE @]]
    /\ UNCHANGED <<target, typing, lastGate, jobs, hist, req, gateQuiet, dispatched, taskQueue, rejected>>
    /\ UNCHANGED <<retryVars, fetchVars, listVars, credVars>>

(***************************************************************************)
(* GmailClient._get_with_backoff: one network call.                        *)
(***************************************************************************)
\* What one self._client.get(...) can end in: a response with a status
\* code, or an exception raised by the HTTP library.
StatusCodes == { 200, 204, 302, 400, 401, 403, 404, 429, 500, 501, 502, 503, 504 }
HttpxExceptions ==
    { "ReadTimeout", "ConnectTimeout", "WriteTimeout", "PoolTimeout",
      "ConnectError", "ReadError", "RemoteProtocolError" }
Outcomes ==
    { [kind |-> "status", code |-> c, exc |-> NoneVal] : c \in StatusCodes }
    \cup { [kind |-> "exception", code |-> 0, exc |-> e] : e \in HttpxExceptions }

RETRYABLE_STATUS_With404 == { 403, 404, 429, 500, 502, 503, 504 }
RETRYABLE_STATUS_No403 == { 429, 500, 502, 503, 504 }
RETRYABLE_STATUS == { 403, 429, 500, 502, 503, 504 }

\* The classes of the except clause.
CaughtExceptions == { "ReadTimeout", "ConnectError", "RemoteProtocolError" }

max_retries_one_less == 8 - 1
max_retries_one_more == 8 + 1
max_retries == 8

\* last_exc = e in the except clause.
LastExcKeepFirst(le, e) == IF le = NoneVal THEN e ELSE le
LastExcAfterCaught(le, e) == e

\* random.random(): values of [0, 1), in thousandths.
random_random == { 0, 4, 500, 996, 999 }

Min(x, y) == IF x <= y THEN x ELSE y

\* delay = min(60.0, (2**attempt) * 0.5) + random.random() * 0.25, in ms,
\* for the random value rnd.
BackoffDelayUncapped(k, rnd) == (2^k) * 500 + (rnd * 250) \div 1000
BackoffDelay(k, rnd) == Min(60000, (2^k) * 500) + (rnd * 250) \div 1000

NoResult == [via |-> NoneVal, status |-> 0, exc |-> NoneVal]

\* What the spec calls a retryable outcome, for the counters below.
SpecRetryableStatus == { 403, 429, 500, 502, 503, 504 }
SpecTransient == { "ReadTimeout", "ConnectError", "RemoteProtocolError" }
IsRetryableStatus(o) == o.kind = "status" /\ o.code \in SpecRetryableStatus
IsTransient(o) == o.kind = "exception" /\ o.exc \in SpecTransient

\* Observers of the call: the outcomes so far, by class.
Observe(o) ==
    /\ lastOutcome' = o
    /\ nAttempts' = nAttempts + 1
    /\ nRetryable' = [nRetryable EXCEPT
                        !.status = IF IsRetryableStatus(o) THEN @ + 1 ELSE @,
                        !.exc = IF IsTransient(o) THEN @ + 1 ELSE @]
    /\ lastTransient' = IF IsTransient(o) THEN o.exc ELSE lastTransient

\* Where the loop goes after a retryable outcome of the given attempt: to
\* await asyncio.sleep(delay) (lines 61-62, 73-74), also in the last pass.
AfterRetryableSkipLastWait(k) ==
    IF k + 1 < max_retries THEN "sleep" ELSE "exhausted"
AfterRetryable(k) == "sleep"

\* One pass of the for loop up to the sleep: r = await self._client.get(...).
Get(o) ==
    /\ rpc = "attempt"
    /\ attempt < max_retries
    /\ o \in Outcomes
    /\ Observe(o)
    /\ IF o.kind = "status"
       THEN IF o.code < 400
            THEN \* return r
                 /\ rpc' = "done"
                 /\ result' = [via |-> "return", status |-> o.code,
                               exc |-> NoneVal]
                 /\ UNCHANGED <<last_exc, delay>>
            ELSE IF o.code \in RETRYABLE_STATUS
            THEN \* delay; sleep; continue
                 /\ rpc' = AfterRetryable(attempt)
                 /\ \E rnd \in random_random :
                        delay' = BackoffDelay(attempt, rnd)
                 /\ UNCHANGED <<result, last_exc>>
            ELSE \* r.raise_for_status(): HTTPStatusError, not caught here
                 /\ rpc' = "done"
                 /\ result' = [via |-> "propagate", status |-> o.code,
                               exc |-> "HTTPStatusError"]
                 /\ UNCHANGED <<last_exc, delay>>
       ELSE IF o.exc \in CaughtExceptions
            THEN /\ last_exc' = LastExcAfterCaught(last_exc, o.exc)
                 /\ rpc' = AfterRetryable(attempt)
                 /\ \E rnd \in random_random :
                        delay' = BackoffDelay(attempt, rnd)
                 /\ UNCHANGED result
            ELSE /\ rpc' = "done"
                 /\ result' = [via |-> "propagate", status |-> 0,
                               exc |-> o.exc]
                 /\ UNCHANGED <<last_exc, delay>>
    /\ UNCHANGED attempt
    /\ UNCHANGED nWaits
    /\ UNCHANGED <<jobVars, fetchVars, listVars, credVars>>

\* await asyncio.sleep(delay), then the next value of range(max_retries).
Sleep ==
    /\ rpc = "sleep"
    /\ nWaits' = nWaits + 1
    /\ attempt' = attempt + 1
    /\ rpc' = IF attempt + 1 < max_retries THEN "attempt" ELSE "exhausted"
    /\ delay' = 0
    /\ UNCHANGED <<last_exc, result, lastOutcome, nAttempts, nRetryable,
                   lastTransient>>
    /\ UNCHANGED <<jobVars, fetchVars, listVars, credVars>>

\* After the loop: raise last_exc, or RuntimeError("Retries exhausted").
Exhausted ==
    /\ rpc = "exhausted"
    /\ rpc' = "done"
    /\ result' = [via |-> "exhausted", status |-> 0,
                  exc |-> IF last_exc # NoneVal THEN last_exc
                          ELSE "RuntimeError: Retries exhausted"]
    /\ UNCHANGED <<attempt, last_exc, lastOutcome, nAttempts, nWaits,
                   nRetryable, lastTransient, delay>>
    /\ UNCHANGED <<jobVars, fetchVars, listVars, credVars>>

(***************************************************************************)
(* GmailClient.fetch_messages_by_ids: one batch.  Time passes in ticks of  *)
(* half a second.                                                          *)
(***************************************************************************)
\* Largest number of ids in the batch.
MaxIds == 3

\* The client's configuration, GmailClient(rps=..., concurrency=...): a
\* small one in place of the defaults (50 and 20), in which a batch of
\* MaxIds ids meets both the semaphore and the limiter.
concurrency == 2
rps == 2

MessageIds == << "m1", "m2", "m3" >>

TickMs == 500

\* AsyncLimiter(self._rps, time_period=1): the period, in ticks.
time_period == 1000 \div TickMs
Ages == 0..(time_period - 1)

\* Outcomes of a request of the batch: a response that is returned, one
\* that is raised at once and one that is retried.
FetchOutcomes ==
    { o \in Outcomes : o.kind = "status" /\ o.code \in { 200, 404, 429 } }

\* r.json() of the response to GET .../messages/{mid}?format={format}.
NoJson == [id |-> NoneVal, format |-> NoneVal]
MessageJson(mid, format) == [id |-> mid, format |-> format]

IdleTask ==
    [pc |-> "none", mid |-> NoneVal, attempt |-> 0, timer |-> 0,
     last_exc |-> NoneVal, out |-> NoJson, exc |-> NoneVal]

Tasks == 1..Len(message_ids)

\* coros = [one(mid) for mid in message_ids]: the id of the i-th coroutine.
CoroArgReversed(ids, i) == ids[Len(ids) + 1 - i]
CoroArg(ids, i) == ids[i]

\* asyncio.Semaphore.acquire proceeds when the value is positive.
SemFreeAlways(value) == TRUE
SemFree(value) == value > 0

\* Entries of the last time_period.
InWindow(f) == f[0] + f[1]
Noted(f) == [f EXCEPT ![0] = @ + 1]
AgedNever(f) == f
Aged(f) == [a \in Ages |-> IF a = 0 THEN 0 ELSE f[a - 1]]

\* AsyncLimiter: at most max_rate acquisitions in any time_period.
LimiterHasCapacity == InWindow(limiter) < rps

\* The ticks a wait of the given delay lasts at least; a wait of a period
\* or more is followed for one period only.
SleepTicks(ms) == Min(ms \div TickMs, time_period)

\* asyncio.gather(*coros) with every coroutine done: the results in the
\* order of the coroutines.
GatherResult == [i \in Tasks |-> task[i].out]

\* message_ids is the list l: the coroutines are created and gathered.
FetchStart(l) ==
    /\ fpc = "idle"
    /\ message_ids' = l
    /\ task' = [i \in 1..MaxIds |->
                  IF i <= Len(l)
                  THEN [IdleTask EXCEPT !.pc = "start", !.mid = CoroArg(l, i)]
                  ELSE IdleTask]
    /\ fpc' = "gathering"
    /\ UNCHANGED <<fresult, fexc, sem, limiter, sent, overtaken>>
    /\ UNCHANGED <<jobVars, retryVars, listVars, credVars, closed>>

\* self._client.get(...) of task i sends a request.
Sends(t, i) == [t EXCEPT ![i].pc = "inflight"]

\* async with self._sem, in the order the coroutines asked; then async with
\* self._limiter and the first request, with no suspension in between when
\* the limiter has capacity.
AcquireSem(i) ==
    /\ i \in Tasks
    /\ ~closed
    /\ task[i].pc = "start"
    /\ \A j \in Tasks : j < i => task[j].pc # "start"
    /\ SemFree(sem)
    /\ sem' = sem - 1
    /\ IF LimiterHasCapacity
       THEN /\ limiter' = Noted(limiter)
            /\ sent' = Noted(sent)
            /\ task' = Sends(task, i)
       ELSE /\ task' = [task EXCEPT ![i].pc = "limiter"]
            /\ UNCHANGED <<limiter, sent>>
    /\ UNCHANGED <<message_ids, fpc, fresult, fexc, overtaken>>
    /\ UNCHANGED <<jobVars, retryVars, listVars, credVars, closed>>

\* async with self._limiter after a wait for capacity, and the first
\* request.
AcquireLimiter(i) ==
    /\ i \in Tasks
    /\ ~closed
    /\ task[i].pc = "limiter"
    /\ LimiterHasCapacity
    /\ limiter' = Noted(limiter)
    /\ sent' = Noted(sent)
    /\ task' = Sends(task, i)
    /\ UNCHANGED <<message_ids, fpc, fresult, fexc, sem, overtaken>>
    /\ UNCHANGED <<jobVars, retryVars, listVars, credVars, closed>>

\* __aexit__ of 'async with self._sem' when the body returned (exc is None)
\* or raised: the semaphore is released in both cases.
SemAfterExitReturnOnly(value, exc) == IF exc = NoneVal THEN value + 1 ELSE value
SemAfterExit(value, exc) == value + 1

\* The coroutine of task i ends, by return or by raise: both context
\* managers exit (the semaphore is released) and gather sees the outcome.
TaskEnds(i, out, exc) ==
    /\ task' = [task EXCEPT ![i] =
                  [IdleTask EXCEPT !.pc = IF exc = NoneVal THEN "done" ELSE "failed",
                                   !.mid = task[i].mid,
                                   !.out = out,
                                   !.exc = exc]]
    /\ sem' = SemAfterExit(sem, exc)
    /\ fexc' = IF fexc = NoneVal THEN exc ELSE fexc
    /\ overtaken' = (overtaken \/
                       \E j \in Tasks : j < i /\ task[j].pc \notin { "done", "failed" })

\* _get_with_backoff: the request of task i ends with outcome o.
Respond(i, o, ticks) ==
    /\ i \in Tasks
    /\ ~closed
    /\ task[i].pc = "inflight"
    /\ ticks \in { SleepTicks(BackoffDelay(task[i].attempt, rnd)) :
                      rnd \in random_random }
    /\ IF o.kind = "status" /\ o.code < 400
       THEN TaskEnds(i, MessageJson(task[i].mid, "full"), NoneVal)
       ELSE IF o.kind = "status" /\ o.code \notin RETRYABLE_STATUS
       THEN TaskEnds(i, NoJson, "HTTPStatusError")
       ELSE IF o.kind = "exception" /\ o.exc \notin CaughtExceptions
       THEN TaskEnds(i, NoJson, o.exc)
       ELSE /\ task' = [task EXCEPT
                          ![i].pc = "sleep",
                          ![i].timer = ticks,
                          ![i].last_exc = IF o.kind = "exception"
                                          THEN LastExcAfterCaught(@, o.exc)
                                          ELSE @]
            /\ UNCHANGED <<sem, fexc, overtaken>>
    /\ UNCHANGED <<message_ids, fpc, fresult, limiter, sent>>
    /\ UNCHANGED <<jobVars, retryVars, listVars, credVars, closed>>

\* for attempt in range(max_retries), a local of each _get_with_backoff
\* call: the attempts task i has used when its sleep is over.
RECURSIVE SumAttempts(_, _)
SumAttempts(t, n) == IF n = 0 THEN 0 ELSE t[n].attempt + SumAttempts(t, n - 1)
AttemptsUsedByBatch(t, i) == SumAttempts(t, MaxIds) + 1
AttemptsUsed(t, i) == t[i].attempt + 1

\* The sleep of task i is over: the request of the next attempt, or the
\* raise after the last one.
Wake(i) ==
    /\ i \in Tasks
    /\ ~closed
    /\ task[i].pc = "sleep"
    /\ task[i].timer = 0
    /\ IF AttemptsUsed(task, i) < max_retries
       THEN /\ task' = Sends([task EXCEPT ![i].attempt = @ + 1], i)
            /\ sent' = Noted(sent)
            /\ UNCHANGED <<sem, fexc, overtaken>>
       ELSE /\ TaskEnds(i, NoJson,
                        IF task[i].last_exc # NoneVal THEN task[i].last_exc
                        ELSE "RuntimeError: Retries exhausted")
            /\ UNCHANGED sent
    /\ UNCHANGED <<message_ids, fpc, fresult, limiter>>
    /\ UNCHANGED <<jobVars, retryVars, listVars, credVars, closed>>

\* Half a second passes.
Tick ==
    /\ fpc # "idle"
    /\ ~closed
    /\ task' = [i \in 1..MaxIds |->
                  IF task[i].timer > 0
                  THEN [task[i] EXCEPT !.timer = @ - 1] ELSE task[i]]
    /\ limiter' = Aged(limiter)
    /\ sent' = Aged(sent)
    /\ <<task', limiter', sent'>> # <<task, limiter, sent>>
    /\ UNCHANGED <<message_ids, fpc, fresult, fexc, sem, overtaken>>
    /\ UNCHANGED <<jobVars, retryVars, listVars, credVars, closed>>

\* gather: every coroutine returned; the call returns the list.
GatherReturn ==
    /\ fpc = "gathering"
    /\ \A i \in Tasks : task[i].pc = "done"
    /\ fpc' = "returned"
    /\ fresult' = GatherResult
    /\ UNCHANGED <<message_ids, fexc, task, sem, limiter, sent, overtaken>>
    /\ UNCHANGED <<jobVars, retryVars, listVars, credVars, closed>>

\* gather: the first exception of a coroutine is raised to the caller; the
\* other coroutines are not cancelled.
GatherRaise ==
    /\ fpc = "gathering"
    /\ fexc # NoneVal
    /\ fpc' = "raised"
    /\ UNCHANGED <<message_ids, fresult, fexc, task, sem, limiter, sent, overtaken>>
    /\ UNCHANGED <<jobVars, retryVars, listVars, credVars, closed>>

\* The caller's exit after the batch call returned or raised: the error
\* handler and the finally clause of the orchestrator, await
\* strategy.close(), which closes the client.  The coroutines gather left
\* running are cancelled when asyncio.run ends, after that.
Close ==
    /\ fpc \in { "returned", "raised" }
    /\ ~closed
    /\ closed' = TRUE
    /\ UNCHANGED <<message_ids, fpc, fresult, fexc, task, sem, limiter, sent,
                   overtaken>>
    /\ UNCHANGED <<jobVars, retryVars, listVars, credVars>>

(***************************************************************************)
(* GmailClient.list_messages: the async generator and the provider's       *)
(* continuation chain.                                                     *)
(***************************************************************************)
\* Largest number of pages of the provider's chain, and number of calls of
\* list_messages followed.
MaxPages == 3
MaxCalls == 2

\* The "messages" of a response: the id of each entry, NoneVal for an entry
\* without id; << >> also stands for a response with no "messages" key.
PageContents == { << >>, << "a", "b" >>, << "c", NoneVal, "d" >> }

\* The nextPageToken that leads to page k.
Tok(k) == ToString(k)

\* A finite chain: every page but the last names the next.
ChainOf(contents) ==
    [k \in 1..Len(contents) |->
        [messages |-> contents[k],
         nextPageToken |-> IF k < Len(contents) THEN Tok(k + 1) ELSE NoneVal]]
Chains ==
    { ChainOf(c) : c \in UNION { [1..n -> PageContents] : n \in 1..MaxPages } }

\* The provider's answer to a list request: the first page for a request
\* without pageToken, else the page the token leads to.
ProviderPage(ch, token) ==
    IF token = NoneVal THEN ch[1]
    ELSE ch[CHOOSE k \in 1..Len(ch) : Tok(k) = token]

\* [msg["id"] for msg in data.get("messages", []) if msg.get("id")].
MsgIds(messages) == SelectSeq(messages, LAMBDA m : m # NoneVal)

\* page_token = data.get("nextPageToken") (line 120).
PageTokenAfterStale(token, data) == token
PageTokenAfter(token, data) == data.nextPageToken

\* if page_token: params["pageToken"] = page_token, then the request (lines
\* 100-111): the pageToken the request carries is noted.
ListRequest(token) ==
    /\ lpc' = "waiting"
    /\ lreqs' = Append(lreqs, token)

\* list_messages(...) is called: a generator object with fresh locals.  The
\* first call fixes the provider's chain.
ListCall(ch) ==
    /\ lpc \in { "idle", "done", "raised" }
    /\ lcalls < MaxCalls
    /\ IF lcalls = 0 THEN chain' = ch ELSE chain' = chain /\ ch = chain
    /\ lcalls' = lcalls + 1
    /\ lpc' = "created"
    /\ page_token' = NoneVal
    /\ lreqs' = << >>
    /\ lresps' = << >>
    /\ lyielded' = << >>
    /\ UNCHANGED <<jobVars, retryVars, fetchVars, credVars>>

\* __anext__: the generator runs to its next request, or ends.  After a
\* yield it first reads the next-page token of the response (lines
\* 120-122).
Anext ==
    /\ lpc \in { "created", "yielded" }
    /\ IF lpc = "created"
       THEN /\ ListRequest(page_token)
            /\ UNCHANGED page_token
       ELSE /\ page_token' = PageTokenAfter(page_token, lresps[Len(lresps)])
            /\ IF page_token' = NoneVal
               THEN /\ lpc' = "done"
                    /\ UNCHANGED lreqs
               ELSE ListRequest(page_token')
    /\ UNCHANGED <<chain, lresps, lyielded, lcalls>>
    /\ UNCHANGED <<jobVars, retryVars, fetchVars, credVars>>

\* _get_with_backoff returns the provider's response and the page is
\* yielded (lines 111-118), or it raises and the generator ends with the
\* exception.
ListRespond(ok) ==
    /\ lpc = "waiting"
    /\ IF ok
       THEN LET data == ProviderPage(chain, lreqs[Len(lreqs)])
            IN  /\ lresps' = Append(lresps, data)
                /\ lyielded' = Append(lyielded, MsgIds(data.messages))
                /\ lpc' = "yielded"
       ELSE /\ lpc' = "raised"
            /\ UNCHANGED <<lresps, lyielded>>
    /\ UNCHANGED <<chain, page_token, lreqs, lcalls>>
    /\ UNCHANGED <<jobVars, retryVars, fetchVars, credVars>>

(***************************************************************************)
(* Specifications.                                                         *)
(***************************************************************************)
Init ==
    /\ target \in ResourceIds
    /\ typing \in BOOLEAN
    /\ jobs = << >>
    /\ hist = << >>
    /\ req = [p \in Requests |-> IdleReq]
    /\ gateQuiet = [a \in ResourceIds |-> 0]
    /\ lastGate = NoGate
    /\ dispatched = {}
    /\ taskQueue = {}
    /\ rejected = {}
    /\ run = [r \in RunIds |-> IdleRun]
    /\ attempt = 0
    /\ last_exc = NoneVal
    /\ rpc = "attempt"
    /\ result = NoResult
    /\ lastOutcome = [kind |-> NoneVal, code |-> 0, exc |-> NoneVal]
    /\ nAttempts = 0
    /\ nWaits = 0
    /\ nRetryable = [status |-> 0, exc |-> 0]
    /\ lastTransient = NoneVal
    /\ delay = 0
    /\ message_ids = << >>
    /\ fpc = "idle"
    /\ fresult = << >>
    /\ fexc = NoneVal
    /\ task = [i \in 1..MaxIds |-> IdleTask]
    /\ sem = concurrency
    /\ limiter = [a \in Ages |-> 0]
    /\ sent = [a \in Ages |-> 0]
    /\ overtaken = FALSE
    /\ closed = FALSE
    /\ chain = << >>
    /\ lpc = "idle"
    /\ page_token = NoneVal
    /\ lreqs = << >>
    /\ lresps = << >>
    /\ lyielded = << >>
    /\ lcalls = 0
    /\ creds = [a \in ResourceIds |-> FindAuthByEmailAccountId(a)]
    /\ refreshCalls = 0

Next ==
    \/ \E p \in Requests : SubmitMalformed(p)
    \/ \E p \in Requests, a \in ResourceIds : GateFind(p, a)
    \/ \E p \in Requests : ReturnExisting(p)
    \/ \E p \in Requests : StartSyncRejected(p)
    \/ \E p \in Requests : StartSyncDispatch(p)
    \/ \E j \in JobIds : RunStart(j)
    \/ \E a \in UnknownJobResourceIds : RunStartUnknownJob(a)
    \/ \E m \in taskQueue : TaskDelivered(m)
    \/ \E r \in RunIds : Resolve(r)
    \/ \E r \in RunIds : ListInbox(r)
    \/ \E r \in RunIds : HandleError(r)
    \/ \E r \in RunIds : Finally(r)

Spec == Init /\ [][Next]_vars

RetryNext ==
    \/ \E o \in Outcomes : Get(o)
    \/ Sleep
    \/ Exhausted

RetrySpec == Init /\ [][RetryNext]_vars

\* The batches tried: the lists of at most MaxIds ids that name the ids in
\* turn, so that neighbours differ and a long list repeats an id.
InputLists ==
    { [i \in 1..n |-> MessageIds[((i - 1) % Len(MessageIds)) + 1]] :
        n \in 0..MaxIds }

FetchInit == Init /\ target = "acct_ok" /\ typing

FetchNext ==
    \/ \E l \in InputLists : FetchStart(l)
    \/ \E i \in 1..MaxIds : AcquireSem(i)
    \/ \E i \in 1..MaxIds : AcquireLimiter(i)
    \/ \E i \in 1..MaxIds, o \in FetchOutcomes, ticks \in 0..time_period :
          Respond(i, o, ticks)
    \/ \E i \in 1..MaxIds : Wake(i)
    \/ Tick
    \/ GatherReturn
    \/ GatherRaise
    \/ Close

FetchSpec == FetchInit /\ [][FetchNext]_vars

\* The batch under the scheduling of the event loop: a coroutine that can
\* run is run, a request sent with the client's timeout ends, time passes
\* and gather resumes the caller.  The caller's exit is not forced.
FetchLiveSpec ==
    /\ FetchSpec
    /\ \A i \in 1..MaxIds :
          /\ WF_vars(AcquireSem(i))
          /\ WF_vars(AcquireLimiter(i))
          /\ WF_vars(\E o \in FetchOutcomes, ticks \in 0..time_period :
                        Respond(i, o, ticks))
          /\ WF_vars(Wake(i))
    /\ WF_vars(Tick)
    /\ WF_vars(GatherReturn)
    /\ WF_vars(GatherRaise)

ListInit == Init /\ target = "acct_ok" /\ typing

ListNext ==
    \/ \E ch \in Chains : ListCall(ch)
    \/ Anext
    \/ \E ok \in BOOLEAN : ListRespond(ok)

ListSpec == ListInit /\ [][ListNext]_vars

\* The consumer's async for keeps asking for the next page, and every
\* request ends (each attempt has a timeout and the attempts are bounded).
ListLiveSpec ==
    ListSpec /\ WF_vars(Anext) /\ WF_vars(\E ok \in BOOLEAN : ListRespond(ok))

(***************************************************************************)
(* Properties of the Sync Job records, the gate and the submission path    *)
(* (under Spec).                                                           *)
(***************************************************************************)
LifecyclePrefixes ==
    { << "queued" >>,
      << "queued", "running" >>,
      << "queued", "running", "succeeded" >>,
      << "queued", "running", "failed" >> }

\* C1: the status values written to a job, in order, are a prefix of
\* queued -> running -> (succeeded | failed): created queued, set running
\* only from queued, made terminal only from running, and never written
\* again once terminal; the stored status is the last one written.
C1_StatusHistoryIsLifecyclePrefix ==
    \A i \in JobIds :
        /\ hist[i] \in LifecyclePrefixes
        /\ jobs[i].status = hist[i][Len(hist[i])]

\* A job went queued -> running -> failed and a later gate call for its
\* resource has completed.
C1_Witness ==
    \E i \in JobIds :
        /\ hist[i] = << "queued", "running", "failed" >>
        /\ lastGate.account = jobs[i].resource_id
        /\ lastGate.job > i

\* C2: when a run has returned a result, its job's status is succeeded or
\* failed, on every exit path.
C2_ReturnedRunLeavesJobTerminal ==
    \A r \in RunIds :
        (r \in JobIds /\ run[r].pc = "returned")
            => jobs[r].status \in Terminal

\* C3: at most one job in {queued, running} per
\* (resource_type, resource_id, job_type).
C3_AtMostOneActiveJobPerTuple ==
    \A i, k \in JobIds :
        ( /\ i # k
          /\ jobs[i].resource_type = jobs[k].resource_type
          /\ jobs[i].resource_id = jobs[k].resource_id
          /\ jobs[i].job_type = jobs[k].job_type
          /\ jobs[i].status \in { "queued", "running" } )
            => jobs[k].status \notin { "queued", "running" }

\* C4: two gate calls for one tuple, the second starting after the first
\* has completed, no other gate call for the tuple in progress during
\* either, and no job of the tuple changing status meanwhile.  A call that
\* starts with no active job creates a queued job and returns created =
\* true; the call after it returns created = false with that job's id and
\* leaves the job table as it was.
C4_SecondGateCallReusesFirstJob ==
    /\ (lastGate.alone /\ lastGate.noActiveAtStart)
          => /\ lastGate.created
             /\ lastGate.wrote
             /\ lastGate.statusAtReturn = "queued"
    /\ (lastGate.alone /\ lastGate.prev > 0)
          => /\ ~lastGate.created
             /\ lastGate.job = lastGate.prev
             /\ ~lastGate.wrote

\* The second of two such calls has completed.
C4_Witness ==
    /\ lastGate.alone
    /\ lastGate.prev > 0
    /\ ~lastGate.created
    /\ lastGate.job = lastGate.prev
    /\ jobs[lastGate.job].status = "queued"

\* C5: every task the submission path starts follows created = true, and is
\* called with the id of the job the gate created and the resource id.
C5_DispatchPassesGateJobAndResource ==
    \A d \in dispatched :
        /\ d.created
        /\ d.args.job_id.type = "job"
        /\ d.args.job_id.job = d.gate_job
        /\ d.args.email_account_id.type = "account"
        /\ d.args.email_account_id.acct = d.account

(***************************************************************************)
(* Properties of one network call (under RetrySpec).                       *)
(***************************************************************************)
IsSuccess(o) == o.kind = "status" /\ o.code < 400
NRetry == nRetryable.status + nRetryable.exc

\* C6: after at most 7 retryable outcomes, in any mix, the call is still
\* going (it has neither raised nor run out of attempts), so a rate-limit
\* status on its first occurrence is not fatal; and a successful response
\* that follows them is what the call returns.
C6_SuccessAfterUpTo7RetryablesIsReturned ==
    /\ (NRetry = nAttempts /\ NRetry <= 7)
          => /\ rpc \in { "sleep", "attempt" }
             /\ (rpc = "attempt" => attempt < max_retries)
    /\ (IsSuccess(lastOutcome) /\ NRetry = nAttempts - 1 /\ NRetry <= 7)
          => /\ rpc = "done"
             /\ result.via = "return"
             /\ result.status = lastOutcome.code

\* Seven retryable outcomes, statuses and exceptions mixed, then success.
C6_Witness ==
    /\ result.via = "return"
    /\ NRetry = 7
    /\ nRetryable.status > 0
    /\ nRetryable.exc > 0

\* C7: there is never a 9th attempt; when the first 8 outcomes are all
\* retryable the call has made exactly 8 attempts, returns no response and
\* ends by raising.
C7_EightRetryablesEightAttemptsThenRaise ==
    /\ nAttempts <= 8
    /\ NRetry = 8
          => /\ nAttempts = 8
             /\ rpc \in { "sleep", "exhausted", "done" }
             /\ result.via # "return"
             /\ (rpc = "done" => result.via = "exhausted" /\ result.exc # NoneVal)

C7_Witness ==
    /\ NRetry = 8
    /\ rpc = "done"
    /\ result.via = "exhausted"

\* C8: on exhaustion the call raises the most recent transient exception
\* when any attempt raised one, even if later attempts returned retryable
\* statuses; it raises the generic "Retries exhausted" exactly when all 8
\* attempts returned a retryable status.
C8_ExhaustionRaisesLastTransientElseGeneric ==
    result.via = "exhausted"
        => /\ (lastTransient # NoneVal => result.exc = lastTransient)
           /\ (result.exc = "RuntimeError: Retries exhausted"
                  <=> (nRetryable.exc = 0 /\ nRetryable.status = 8))

\* Exhausted after two or more transient exceptions, the last attempt
\* having returned a retryable status.
C8_Witness ==
    /\ result.via = "exhausted"
    /\ nRetryable.exc >= 2
    /\ lastOutcome.kind = "status"
    /\ result.exc = lastTransient

IsNonRetryableError(o) ==
    o.kind = "status" /\ o.code >= 400 /\ o.code \notin SpecRetryableStatus

\* C9: an HTTP error status outside {403, 429, 500, 502, 503, 504} ends the
\* call at that attempt: the error is raised to the caller, no wait follows
\* the attempt and no attempt follows it, whatever came before.
C9_NonRetryableStatusFailsAtOnce ==
    IsNonRetryableError(lastOutcome)
        => /\ rpc = "done"
           /\ result.via = "propagate"
           /\ result.exc = "HTTPStatusError"
           /\ result.status = lastOutcome.code
           /\ nWaits = nAttempts - 1

\* A non-retryable status after retryable outcomes.
C9_Witness ==
    /\ IsNonRetryableError(lastOutcome)
    /\ nAttempts >= 3
    /\ nRetryable.exc > 0
    /\ rpc = "done"

\* How the loop treated the last outcome.
TreatedRetryable ==
    \/ rpc \in { "sleep", "attempt", "exhausted" }
    \/ (rpc = "done" /\ result.via = "exhausted")
TreatedSuccess == rpc = "done" /\ result.via = "return"
TreatedFatal == rpc = "done" /\ result.via = "propagate"

\* The loop treats an outcome as retryable iff it is a status of the
\* retryable set or an exception of the classes T, as success iff it is a
\* non-error response, and as fatal otherwise.
Classifies(T) ==
    nAttempts > 0 =>
        LET o == lastOutcome
            retryable == \/ (o.kind = "status" /\ o.code \in SpecRetryableStatus)
                         \/ (o.kind = "exception" /\ o.exc \in T)
        IN  /\ TreatedRetryable <=> retryable
            /\ TreatedSuccess <=> IsSuccess(o)
            /\ TreatedFatal <=> (~retryable /\ ~IsSuccess(o))

\* C10 as stated: the transient classes are every kind of timeout, connect
\* failure and protocol reset.
AnyTimeoutConnectOrProtocol ==
    { "ReadTimeout", "ConnectTimeout", "WriteTimeout", "PoolTimeout",
      "ConnectError", "RemoteProtocolError" }
C10_ClassifiesWithAnyTimeout == Classifies(AnyTimeoutConnectOrProtocol)

\* C10 as amended: the transient classes are read timeout, connect failure
\* and protocol reset; a connect, write or pool timeout ends the call at
\* once like any other error.
C10_ClassifiesWithReadTimeoutOnly == Classifies(SpecTransient)

\* A connect timeout ended the call at its attempt, after earlier retries.
C10_Witness ==
    /\ lastOutcome.exc = "ConnectTimeout"
    /\ TreatedFatal
    /\ result.exc = "ConnectTimeout"
    /\ nAttempts >= 2

\* The base delays of the attempts 0..7, in ms.
BaseDelays == << 500, 1000, 2000, 4000, 8000, 16000, 32000, 60000 >>

C12_FetchKeepsOrderOrRaises ==
    /\ fpc = "returned"
          => /\ Len(fresult) = Len(message_ids)
             /\ \A i \in 1..Len(message_ids) :
                    fresult[i] = MessageJson(message_ids[i], "full")
             /\ \A i \in Tasks : task[i].pc = "done"
    /\ (\E i \in Tasks : task[i].pc = "failed") => fpc # "returned"
    /\ fpc = "raised" => (fresult = << >> /\ fexc # NoneVal)

\* A batch of three ids has returned although a request completed before
\* one of a lower index.
C12_Witness ==
    /\ fpc = "returned"
    /\ Len(message_ids) = 3
    /\ overtaken

InFlight == { i \in Tasks : task[i].pc = "inflight" }

\* C13: the number of requests sent and not yet completed is at most the
\* configured concurrency, also for a batch of more ids than that.
C13_InFlightAtMostConcurrency == Cardinality(InFlight) <= concurrency

\* As many requests in flight as the concurrency allows while another id of
\* the batch waits for the semaphore.
C13_Witness ==
    /\ Len(message_ids) > concurrency
    /\ Cardinality(InFlight) = concurrency
    /\ \E i \in Tasks : task[i].pc = "start"

\* C14: the number of requests sent to the remote API within one rate
\* window (time_period) is at most rps, re-sent requests included.
C14_RequestsPerWindowAtMostRps == InWindow(sent) <= rps

(***************************************************************************)
(* Properties of the orchestration runs (under Spec).                      *)
(***************************************************************************)
\* The account, the credential, the access token, the user identifier and
\* both strategies of the run's resource resolve.
FullyResolves(a) == ResolveOutcome(a).kind = "strategy"

\* The mailbox of the example: the sizes of the inbox pages and of the
\* sent-scope pages the remote API serves, every request succeeding.
ExamplePages == [inbox |-> << 500, 500, 120 >>, sent |-> << >>]

RECURSIVE SumSeq(_)
RECURSIVE ScopeSteps(_, _, _)
SumSeq(q) == IF q = << >> THEN 0 ELSE q[1] + SumSeq(Tail(q))

ExampleTotal == SumSeq(ExamplePages.inbox) + SumSeq(ExamplePages.sent)

\* C15: progress is persisted after each page, so the stored
\* progress_current takes the running totals 500, 1000, 1120 in turn; when
\* the run over that mailbox has returned, it is the last of them.
C15_ProgressPersistedEagerly ==
    \A r \in JobIds :
        (run[r].pc = "returned" /\ FullyResolves(run[r].account))
            => jobs[r].progress_current = ExampleTotal

\* C16: when everything resolves and every list and fetch succeeds, the
\* run marks the job succeeded with a completion timestamp and returns
\* {status: success, message_count: total}; and a success result is
\* returned only for a job that is succeeded.
C16_ResolvedRunSucceeds ==
    \A r \in JobIds :
        /\ (run[r].pc = "returned" /\ FullyResolves(run[r].account))
              => /\ run[r].result.status = "success"
                 /\ run[r].result.message_count = ExampleTotal
                 /\ jobs[r].status = "succeeded"
                 /\ jobs[r].completed_at # NoneVal
        /\ run[r].result.status = "success" => jobs[r].status = "succeeded"

\* The run of job r has been through the except clause.
Handled(r) == run[r].error # NoneVal /\ run[r].pc \in { "finally", "returned" }

\* C17: when a stage of a run raises, the job is marked failed, the error
\* text is stored as its error_message and the run returns {status: error,
\* message: text} with the same text; the failed status is written through
\* a persistence context opened after the one that was active at the raise.
C17_RaisedStageMarksJobFailed ==
    \A r \in JobIds :
        Handled(r)
            => /\ jobs[r].status = "failed"
               /\ jobs[r].error_message = run[r].error
               /\ run[r].result.status = "error"
               /\ run[r].result.message = run[r].error
               /\ run[r].raisedIn > 0
               /\ run[r].failedIn > run[r].raisedIn

\* A run whose list call raised has returned.
C17_Witness ==
    \E r \in JobIds :
        /\ run[r].pc = "returned"
        /\ run[r].listCalls = 1
        /\ run[r].error = "TypeError: unexpected keyword argument"
        /\ jobs[r].error_message = run[r].error

\* The resources whose account, credential, access token or user
\* identifier is absent, and the message of each.
EarlyReturnMessages ==
    [ acct_absent  |-> "EmailAccount not found",
      acct_noauth  |-> "No auth data found",
      acct_notoken |-> "Access token not available",
      acct_nouid   |-> "User identifier not found" ]

\* C18: a run for such a resource creates no Provider Strategy, calls no
\* list and sends no request, and it returns the structured error result
\* of its case, not an exception.
C18_AbsentDataReturnsErrorBeforeStrategy ==
    \A r \in JobIds :
        run[r].account \in DOMAIN EarlyReturnMessages
            => /\ run[r].strategy = "none"
               /\ run[r].closeCalls = 0
               /\ run[r].listCalls = 0
               /\ run[r].requests = 0
               /\ run[r].pc # "raised"
               /\ run[r].pc \in { "finally", "returned" }
                     => /\ run[r].result =
                             [status |-> "error",
                              message |-> EarlyReturnMessages[run[r].account]]
                        /\ run[r].error = NoneVal

\* A run for an account whose credential has no access token has returned.
C18_Witness ==
    \E r \in JobIds :
        /\ run[r].account = "acct_notoken"
        /\ run[r].pc = "returned"

UnregisteredTags == EmailProvider \ { "gmail" }

\* C20: for a provider tag that is not registered (OUTLOOK), both factories
\* raise the configuration error and construct nothing; a run for an
\* account of such a provider never creates a strategy, never reaches a
\* list call, sends no request, and ends failed with that error.
C20_UnregisteredProviderFailsAtSelection ==
    /\ \A p \in UnregisteredTags :
          /\ AuthDataStrategyFactoryCreate(p).raises = "ValueError"
          /\ AuthDataStrategyFactoryCreate(p).constructed = {}
          /\ EmailProviderStrategyFactoryCreate(p).raises = "ValueError"
          /\ EmailProviderStrategyFactoryCreate(p).constructed = {}
    /\ \A r \in JobIds :
          (run[r].pc # "none"
             /\ EmailAccountFindById(run[r].account).provider \in UnregisteredTags)
              => /\ run[r].strategy = "none"
                 /\ run[r].pc # "list_inbox"
                 /\ run[r].listCalls = 0
                 /\ run[r].requests = 0
                 /\ run[r].pc = "returned"
                       => /\ run[r].result.status = "error"
                          /\ run[r].error = "Unsupported email provider for auth data"
                          /\ jobs[r].status = "failed"

\* The run of an Outlook account has returned.
C20_Witness ==
    \E r \in JobIds :
        /\ run[r].account = "acct_outlook"
        /\ run[r].pc = "returned"
        /\ jobs[r].status = "failed"

\* The run of r has left the function, by return or by an exception.
Left(r) == run[r].pc \in { "returned", "raised" }

\* C21: a run calls the strategy's close at most once at any time, and when
\* it has left the function it has called close exactly once if it created
\* a strategy and not at all if it created none.
C21_CloseExactlyOnceIfCreated ==
    \A r \in RunIds :
        /\ run[r].closeCalls <= 1
        /\ Left(r) =>
              run[r].closeCalls = IF run[r].strategy # "none" THEN 1 ELSE 0

\* One run has returned after it created a strategy, another after an
\* early error return that created none.
C21_Witness ==
    \E r1, r2 \in JobIds :
        /\ run[r1].pc = "returned" /\ run[r1].strategy = "closed"
        /\ run[r1].closeCalls = 1
        /\ run[r2].pc = "returned" /\ run[r2].strategy = "none"
        /\ run[r2].error = NoneVal /\ run[r2].result.status = "error"

\* The schedule of a run over a mailbox whose scopes have the given page
\* sizes: per scope and page, the list request, then the batch fetch, then
\* the progress write.
PageSteps(scope, n) ==
    << [op |-> "list", scope |-> scope, page |-> n],
       [op |-> "fetch", scope |-> scope, page |-> n],
       [op |-> "progress", scope |-> scope, page |-> n] >>
ScopeSteps(scope, n, last) ==
    IF n > last THEN << >>
    ELSE PageSteps(scope, n) \o ScopeSteps(scope, n + 1, last)
\* A scope with no message still answers one (empty) page.
NPages(sizes) == IF sizes = << >> THEN 1 ELSE Len(sizes)
SequentialSchedule(pages) ==
    ScopeSteps("INBOX", 1, NPages(pages.inbox))
        \o ScopeSteps("SENT", 1, NPages(pages.sent))

C29_LabelAndFormatReachTheApi ==
    \A r \in JobIds :
        run[r].listCalls > 0
            => /\ \A i \in 1..Len(Scopes) :
                     LET c == GmailStrategyListMessages(
                                 OrchestratorListKwargs(Scopes[i]))
                     IN  /\ c.raises = NoneVal
                         /\ "labelIds" \in DOMAIN ClientListParams(c.client_kwargs)
                         /\ ClientListParams(c.client_kwargs).labelIds
                               = << Scopes[i] >>
                         /\ ~ClientListParams(c.client_kwargs).includeSpamTrash
               /\ LET f == GmailStrategyFetchMessagesByIds(OrchestratorFetchKwargs)
                  IN  /\ f.raises = NoneVal
                      /\ ClientFetchFormat(f.client_kwargs) = "metadata"

(***************************************************************************)
(* Properties of GmailClient.list_messages (under ListLiveSpec).           *)
(***************************************************************************)
ListEnded == lpc \in { "done", "raised" }

\* What holds of a call of list_messages at every moment.
ListFollowsChain ==
    /\ Len(lreqs) >= 1 => lreqs[1] = NoneVal
    /\ \A k \in 2..Len(lreqs) :
          /\ lresps[k - 1].nextPageToken # NoneVal
          /\ lreqs[k] = lresps[k - 1].nextPageToken
    /\ Len(lyielded) = Len(lresps)
    /\ Len(lresps) <= Len(chain)
    /\ \A k \in 1..Len(lresps) :
          /\ lresps[k] = chain[k]
          /\ lyielded[k] = MsgIds(chain[k].messages)
    /\ lpc = "done"
          => /\ Len(lresps) = Len(lreqs)
             /\ Len(lresps) >= 1
             /\ lresps[Len(lresps)].nextPageToken = NoneVal
    /\ lpc \in { "yielded", "done" } => Len(lresps) = Len(lreqs)
    /\ lpc = "waiting" => Len(lreqs) = Len(lresps) + 1

\* C23: list_messages follows the continuation chain (first request without
\* token, each later one with the next-page token of the response before,
\* one page yielded per response in the provider's order, end right after
\* the first response without next-page token), every call on a finite
\* chain ends, and a new call starts from the first page again.
C23_ListFollowsContinuationChain ==
    /\ [] ListFollowsChain
    /\ (lpc = "created") ~> ListEnded

\* A second call has gone through a chain of MaxPages pages to its end.
C23_Witness ==
    /\ lcalls = 2
    /\ lpc = "done"
    /\ Len(chain) = MaxPages
    /\ Len(lyielded) = MaxPages
    /\ lreqs = [k \in 1..MaxPages |-> IF k = 1 THEN NoneVal ELSE Tok(k)]
    /\ \E k \in 1..MaxPages : lyielded[k] = << >>

(***************************************************************************)
(* Further properties of the orchestration runs (under Spec).              *)
(***************************************************************************)
\* Totals a run would pass to update_job(job_id, progress_current=total)
\* over the example mailbox.
ExampleProgress == { 500, 1000, 1120 }

C25_RunLeavesCredentialsAlone ==
    /\ creds = [a \in ResourceIds |-> FindAuthByEmailAccountId(a)]
    /\ refreshCalls = 0
    /\ \A r \in JobIds :
          (run[r].pc \in { "finally", "returned" }
             /\ EmailAccountFindById(run[r].account).found
             /\ FindAuthByEmailAccountId(run[r].account).found
             /\ FindAuthByEmailAccountId(run[r].account).access_token = NoneVal)
              => run[r].result = ErrorResult("Access token not available")

\* The run of an account whose credential has no access token has returned
\* and the stored credential still has none.
C25_Witness ==
    \E r \in JobIds :
        /\ run[r].pc = "returned"
        /\ run[r].result.status = "error"
        /\ creds[run[r].account].found
        /\ creds[run[r].account].access_token = NoneVal

\* C26: a step that changes a job record of the table is a step of the run
\* that owns the record's id, and of no other run.
C26_RunWritesOnlyItsOwnJob ==
    [][ \A j \in JobIds :
          jobs'[j] # jobs[j]
              => /\ run'[j] # run[j]
                 /\ \A r \in RunIds \ { j } : run'[r] = run[r] ]_vars

\* Two runs for two jobs of the same resource are active at once, and one
\* has marked its job failed while the other's job is still running.
C26_Witness ==
    \E r1, r2 \in JobIds :
        /\ r1 # r2
        /\ jobs[r1].resource_id = jobs[r2].resource_id
        /\ run[r1].pc = "finally" /\ jobs[r1].status = "failed"
        /\ run[r2].pc \in { "resolve", "list_inbox", "handler" }
        /\ jobs[r2].status = "running"

\* C27: the submissions for one account all carry the same idempotency key,
\* so at most one job of the account is ever created and at most one task
\* is submitted for it.
C27_SameKeyCreatesAtMostOneJob ==
    \A a \in ResourceIds :
        /\ Cardinality({ j \in JobIds : jobs[j].resource_id = a }) <= 1
        /\ Cardinality({ d \in dispatched :
                            /\ d.account = a
                            /\ d.args.idempotency_key \in
                                 { KeyArg(k) : k \in IdempotencyKeys } }) <= 1

(***************************************************************************)
(* Further properties of GmailClient.fetch_messages_by_ids (under          *)
(* FetchSpec).                                                             *)
(***************************************************************************)
Ended(i) == task[i].pc \in { "done", "failed" }

C30_CloseAfterEveryRequestEnded ==
    closed => \A i \in Tasks : Ended(i)

(***************************************************************************)
(* Further properties of GmailClient._get_with_backoff (under RetrySpec).  *)
(***************************************************************************)
\* C36: every attempt with a retryable outcome is followed by one backoff
\* wait, the last attempt too: the waits done or in progress are as many as
\* the retryable outcomes, the call raises for exhaustion only after 8
\* waits, and an attempt that succeeds or fails at once is followed by no
\* wait.
C36_OneWaitPerRetryableAttempt ==
    /\ nWaits + (IF rpc = "sleep" THEN 1 ELSE 0) = NRetry
    /\ rpc \in { "exhausted", "done" } /\ NRetry = max_retries
          => nWaits = max_retries
    /\ (rpc = "done" /\ result.via = "exhausted") => nWaits = 8
    /\ (rpc = "done" /\ result.via \in { "return", "propagate" })
          => /\ nWaits = nAttempts - 1
             /\ ~IsRetryableStatus(lastOutcome) /\ ~IsTransient(lastOutcome)

\* The call has raised for exhaustion after its eighth wait.
C36_Witness ==
    /\ rpc = "done"
    /\ result.via = "exhausted"
    /\ nWaits = 8
    /\ nAttempts = 8

(***************************************************************************)
(* Further properties of GmailClient.fetch_messages_by_ids (under          *)
(* FetchSpec).                                                             *)
(***************************************************************************)
\* The requests that are inside 'async with self._sem'.
HoldsSlot(t, i) == t[i].pc \in { "limiter", "inflight", "sleep" }
SlotHolders(t) == { i \in Tasks : HoldsSlot(t, i) }

\* What a step does to the slot and the permit of request i.
C35_StepOfRequest(i) ==
    /\ (task[i].pc = "start" /\ task'[i].pc # "start")
          => /\ sem' = sem - 1
             /\ HoldsSlot(task', i)
    /\ (task[i].pc \in { "start", "limiter" } /\ task'[i].pc = "inflight")
          => /\ limiter'[0] = limiter[0] + 1
             /\ task'[i].attempt = 0
    /\ (task[i].pc = "limiter" /\ task'[i].pc # "limiter")
          => task'[i].pc = "inflight" /\ sem' = sem
    /\ (task[i].pc = "inflight" /\ task'[i].pc = "sleep")
          => sem' = sem /\ limiter' = limiter
    /\ (task[i].pc = "sleep" /\ task'[i].pc = "inflight")
          => sem' = sem /\ limiter' = limiter
    /\ (HoldsSlot(task, i) /\ Ended(i)')
          => sem' = sem + 1
    /\ ~HoldsSlot(task, i) => ~Ended(i)' \/ Ended(i)
    /\ Ended(i) => task'[i] = task[i]

C35_SlotAccounting ==
    /\ sem \in 0..concurrency
    /\ sem + Cardinality(SlotHolders(task)) = concurrency
    /\ (fpc # "idle" /\ \A i \in Tasks : Ended(i)) => sem = concurrency

\* C35: each request of a batch takes one slot and one rate permit before
\* its first attempt, keeps that slot and takes no further permit through
\* its retries and waits, and gives the slot back once when it returns or
\* raises; the free slots and the requests holding one always add up to the
\* configured number, so every slot is free once the batch has ended.
C35_OneSlotOnePermitPerRequest ==
    /\ []C35_SlotAccounting
    /\ [][\A i \in Tasks : C35_StepOfRequest(i)]_vars

\* A batch of more ids than slots has ended with a request that raised and
\* one that returned, and every slot is free.
C35_Witness ==
    /\ Len(message_ids) > concurrency
    /\ \A i \in Tasks : Ended(i)
    /\ \E i, j \in Tasks : task[i].pc = "failed" /\ task[j].pc = "done"
    /\ sem = concurrency

\* C34: a batch call always terminates under fair scheduling: no request
\* makes more than 8 attempts, every request waiting for a slot or a permit
\* obtains it and every request that holds a slot ends (unless the caller
\* has left and closed the client first), and the call returns one record
\* per id or raises.
C34_BatchTerminates ==
    /\ [](\A i \in 1..MaxIds : task[i].attempt < max_retries)
    /\ []((fpc = "returned") => Len(fresult) = Len(message_ids))
    /\ (fpc = "gathering") ~> (fpc \in { "returned", "raised" })
    /\ (\E i \in Tasks : ~Ended(i)) ~> (closed \/ \A i \in Tasks : Ended(i))

\* A batch of more ids than slots returned its records although a request
\* had to wait for a slot.
C34_Witness ==
    /\ fpc = "returned"
    /\ Len(message_ids) = MaxIds
    /\ Len(fresult) = MaxIds
    /\ MaxIds > concurrency
    /\ \A i \in Tasks : task[i].pc = "done"

(***************************************************************************)
(* Further properties of the jobs and the runs (under Spec).               *)
(***************************************************************************)
\* The jobs of resource a, and whether one has been run.
JobsOf(a) == { j \in JobIds : jobs[j].resource_id = a }

\* C31: the gate does not stay blocked: once every job of a resource has
\* had its run and that run has ended, with any result, the gate's lookup
\* for the resource finds no job in queued or running, so the next
\* submission creates a job.
C31_GateFreeAfterRunsEnded ==
    \A a \in ResourceIds :
        (JobsOf(a) # {} /\ \A j \in JobsOf(a) : Left(j))
            => find_job_by_resource(jobs, a, "email_account", "mailbox_sync",
                                    ActiveStatuses) = {0}

\* C32: a submission rejected because the account is absent or its
\* credentials are invalid leaves no job in queued or running for that
\* account.
C32_RejectedSubmissionLeavesNoActiveJob ==
    (lastGate.created /\ StartSyncRaisesValueError(lastGate.account))
        => MatchingJobs(jobs, lastGate.account, "email_account",
                        "mailbox_sync", ActiveStatuses) = {}

\* C33: the task entrypoint never lets an exception escape: every call of
\* it that has ended, also one with a malformed resource id or with a job
\* id that matches no record, has returned a structured result.
C33_EntrypointAlwaysReturnsResult ==
    \A r \in RunIds :
        /\ run[r].raised = NoneVal
        /\ Left(r) => /\ run[r].pc = "returned"
                      /\ run[r].result.status \in { "success", "error" }

====
